---- MODULE Spec2Model ----
(***************************************************************************)
(* gempyor.model_info.ModelInfo: the constructor that resolves a run       *)
(* descriptor from its arguments and the process-wide configuration, and   *)
(* the filename / read / write helpers of the constructed descriptor.      *)
(*                                                                         *)
(* Conventions.                                                            *)
(*   - A Python value that may be None is an optional: None is <<>> and a  *)
(*     present value v is <<v>>.                                           *)
(*   - A dictionary (or the value behind a configuration view) is a TLA+   *)
(*     function whose DOMAIN is its key set; the empty dictionary is <<>>. *)
(*   - An instance is its attribute dictionary: hasattr(self, k) is        *)
(*     k \in DOMAIN self.                                                  *)
(*   - A float is the reduced fraction <<n, d>> of its value.              *)
(*   - A date is its day ordinal, so (tf - ti).days is tf - ti.            *)
(*   - Paths and run identifiers are strings.                              *)
(***************************************************************************)
EXTENDS Integers, Sequences, FiniteSets, TLC

VARIABLES
    config,     \* the process-wide configuration (utils.config)
    pc,         \* "new" | "constructed" | "raised": the constructor's outcome
    self,       \* the instance's attribute dictionary
    call,       \* the constructor's arguments (None before the call)
    exc,        \* the exception the constructor raised ("" when none)
    stdout,     \* lines printed
    log,        \* lines logged with logging.info
    dirs,       \* directories that exist
    files,      \* the file store: path -> content
    last,       \* the last helper call: arguments, return value, exception
    lastWrite,  \* the most recent completed write_simID call (None when none)
    ncalls      \* helper calls made so far

vars == <<config, pc, self, call, exc, stdout, log, dirs, files, last, lastWrite, ncalls>>

-----------------------------------------------------------------------------
(* Bounds of the model *)

MaxDate == 3
MaxSimId == 2
MaxCalls == 2

-----------------------------------------------------------------------------
(* Python values *)

None == <<>>

Some(v) == <<v>>

Val(o) == o[1]

EmptyDict == <<>>

\* bool(d) of a dictionary or of a configuration view: false when empty
Truthy(d) == d # EmptyDict

\* bool(o) of a value that may be None
TruthyOpt(o) == o # None /\ Truthy(Val(o))

\* config[section].exists()
Exists(section) == section # None

\* f"{x}" of a string that may be None
Str(o) == IF o = None THEN "None" ELSE Val(o)

SetAttr(s, k, v) == (k :> v) @@ s

RECURSIVE GCD(_, _)
GCD(m, n) == IF n = 0 THEN m ELSE GCD(n, m % n)

\* the float whose value is n / d
Float(n, d) == <<n \div GCD(n, d), d \div GCD(n, d)>>

\* float(eval(str(e))) of a configured formula: a literal or a ratio
EvalFormula(e) ==
    CASE e.op = "lit" -> Float(e.l, 1)
      [] e.op = "/"   -> Float(e.l, e.r)

\* an exception leaves the attributes assigned so far in place
Raise(fr, name) == [fr EXCEPT !.exc = name]

-----------------------------------------------------------------------------
(* ModelInfo.__init__ *)

\* a constructor that accepts a one-day span
InvalidTimeSpan_strict(ti, tf) == tf < ti

\* line 60: the time span is rejected
InvalidTimeSpan(ti, tf) == tf <= ti

\* line 78: both ti and tf are included
DayCount(ti, tf) == (tf - ti) + 1

\* 1. Important global variables (lines 55-83)
Init_GlobalVariables(a) ==
    LET s0 == [setup_name |-> a.setup_name, nslots |-> a.nslots, dt |-> a.dt,
               ti |-> a.ti, tf |-> a.tf]
        fr0 == [self |-> s0, exc |-> "", stdout |-> <<>>, log |-> <<>>, dirs |-> {}]
    IN  IF InvalidTimeSpan(a.ti, a.tf)
        THEN Raise(fr0, "ValueError")
        ELSE [fr0 EXCEPT !.self =
                [npi_scenario |-> a.npi_scenario,
                 npi_config_seir |-> a.npi_config_seir,
                 seeding_config |-> a.seeding_config,
                 initial_conditions_config |-> a.initial_conditions_config,
                 parameters_config |-> a.parameters_config,
                 outcomes_config |-> a.outcomes_config,
                 seir_config |-> a.seir_config,
                 interactive |-> a.interactive,
                 write_csv |-> a.write_csv,
                 write_parquet |-> a.write_parquet,
                 first_sim_index |-> a.first_sim_index,
                 outcome_scenario |-> a.outcome_scenario,
                 subpop_struct |-> a.subpop_setup,
                 n_days |-> DayCount(a.ti, a.tf),
                 nsubpops |-> a.subpop_setup.nsubpops,
                 subpop_pop |-> a.subpop_setup.subpop_pop,
                 mobility |-> a.subpop_setup.mobility,
                 stoch_traj_flag |-> a.stoch_traj_flag] @@ s0]

\* lines 87-88: fall back on the process-wide SEIR section
Init_SeirConfig(a, cfg, fr) ==
    IF fr.exc # "" THEN fr
    ELSE IF a.seir_config = None /\ Exists(cfg.seir)
         THEN [fr EXCEPT !.self = SetAttr(@, "seir_config", cfg.seir)]
         ELSE fr

\* lines 93-100: the method of an integration block, aliases resolved
ResolveMethod(integration, fr) ==
    IF "method" \in DOMAIN integration
    THEN LET m0 == integration.method
             m1 == IF m0 = "best.current" THEN "rk4.jit" ELSE m0
             m2 == IF m1 = "rk4" THEN "rk4.jit" ELSE m1
             fr1 == [fr EXCEPT !.self = SetAttr(@, "integration_method", m2)]
         IN  IF m2 \notin {"rk4.jit", "legacy"}
             THEN Raise(fr1, "ValueError")
             ELSE fr1
    ELSE fr

\* a constructor whose configured step size overrides the dt argument
UseConfiguredDt_always(integration, dt) == "dt" \in DOMAIN integration

\* line 101: the configured step size is used
UseConfiguredDt(integration, dt) == "dt" \in DOMAIN integration /\ dt = None

\* lines 101-106: the step size of an integration block
ResolveDt(integration, fr) ==
    IF fr.exc # "" THEN fr
    ELSE IF UseConfiguredDt(integration, fr.self.dt)
         THEN [fr EXCEPT !.self = SetAttr(@, "dt", Some(EvalFormula(integration.dt)))]
         ELSE IF fr.self.dt = None
              THEN [fr EXCEPT !.self = SetAttr(@, "dt", Some(Float(2, 1)))]
              ELSE fr

\* lines 107-111: no integration block
DefaultIntegration(fr) ==
    LET s1 == SetAttr(fr.self, "integration_method", "rk4.jit")
        s2 == IF s1.dt = None THEN SetAttr(s1, "dt", Some(Float(2, 1))) ELSE s1
    IN  [fr EXCEPT !.self = s2,
                   !.log = Append(@, "Integration method not provided, assuming type rk4.jit")]

\* lines 112-113: self.dt = float(self.dt)
FloatDt(fr) ==
    IF fr.exc # "" THEN fr
    ELSE IF fr.self.dt # None
         THEN [fr EXCEPT !.self =
                 SetAttr(@, "dt", Some(Float(Val(fr.self.dt)[1], Val(fr.self.dt)[2])))]
         ELSE fr

\* a constructor that builds Compartments whatever the configuration holds
BuildCompartments_always(cfg, s) == s.seir_config # None

\* line 127: Compartments is built
BuildCompartments(cfg, s) == Exists(cfg.compartments) /\ s.seir_config # None

\* lines 115-130: Parameters, SeedingAndIC and (when configured) Compartments
Collaborators(cfg, fr) ==
    IF fr.exc # "" THEN fr
    ELSE LET s1 == SetAttr(fr.self, "parameters",
                      [parameter_config |-> fr.self.parameters_config,
                       ti |-> fr.self.ti, tf |-> fr.self.tf,
                       subpop_names |-> fr.self.subpop_struct.subpop_names])
             s2 == SetAttr(s1, "seedingAndIC",
                      [seeding_config |-> fr.self.seeding_config,
                       initial_conditions_config |-> fr.self.initial_conditions_config])
             s3 == IF BuildCompartments(cfg, s2)
                   THEN SetAttr(s2, "compartments",
                           [seir_config |-> s2.seir_config,
                            compartments_config |-> cfg.compartments])
                   ELSE s2
         IN  [fr EXCEPT !.self = s3]

\* lines 90-130: the integration method, the time step and the collaborators
Init_Integration(a, cfg, fr) ==
    IF fr.exc # "" THEN fr
    ELSE IF Exists(cfg.seir) /\ (TruthyOpt(a.seir_config) \/ Truthy(a.parameters_config))
         THEN LET sc == Val(fr.self.seir_config)
                  fr1 == IF "integration" \in DOMAIN sc
                         THEN ResolveDt(sc.integration, ResolveMethod(sc.integration, fr))
                         ELSE DefaultIntegration(fr)
              IN  Collaborators(cfg, FloatDt(fr1))
         ELSE fr

\* lines 132-136: 3. Outcomes.  The section is looked up on self.config, an
\* attribute no line of the class assigns.
Init_Outcomes(fr) ==
    IF fr.exc # "" THEN fr
    ELSE LET fr1 == [fr EXCEPT !.self = SetAttr(@, "npi_config_outcomes", None)]
         IN  IF Truthy(fr1.self.outcomes_config)
             THEN IF "config" \notin DOMAIN fr1.self
                  THEN Raise(fr1, "AttributeError")
                  ELSE IF Exists(fr1.self.config.outcomes_modifiers)
                       THEN [fr1 EXCEPT !.self =
                               SetAttr(@, "npi_config_outcomes",
                                       fr1.self.config.outcomes_modifiers)]
                       ELSE fr1
             ELSE fr1

\* lines 140-154: 4. Inputs and outputs.  env.run_id_1 and env.run_id_2 are what
\* the two calls of file_paths.run_id() return.
Init_RunIdentity(a, env, fr) ==
    IF fr.exc # "" THEN fr
    ELSE LET in_run_id == IF a.in_run_id = None THEN env.run_id_1 ELSE Val(a.in_run_id)
             out_run_id == IF a.out_run_id = None THEN env.run_id_2 ELSE Val(a.out_run_id)
             in_prefix == IF a.in_prefix = None
                          THEN "model_output/" \o a.setup_name \o "/" \o in_run_id \o "/"
                          ELSE Val(a.in_prefix)
             out_prefix == IF a.out_prefix = None
                           THEN "model_output/" \o a.setup_name \o "/" \o Str(a.npi_scenario)
                                    \o "/" \o out_run_id \o "/"
                           ELSE Val(a.out_prefix)
         IN  [fr EXCEPT !.self =
                [in_run_id |-> in_run_id, out_run_id |-> out_run_id,
                 in_prefix |-> in_prefix, out_prefix |-> out_prefix] @@ @]

\* file_paths.create_dir_name: the directory of an artifact type's files
create_dir_name(run_id, prefix, ftype) == prefix

\* lines 158-162: the artifact types whose directories are created
OutputFtypes(a, cfg) ==
    (IF Exists(cfg.seir) THEN {"seir", "spar", "snpi"} ELSE {})
        \cup (IF Truthy(a.outcomes_config) THEN {"hosp", "hpar", "hnpi"} ELSE {})

\* a constructor that prefers csv when both formats are requested
SetExtension_csvFirst(s) ==
    IF s.write_csv THEN SetAttr(s, "extension", "csv")
    ELSE IF s.write_parquet THEN SetAttr(s, "extension", "parquet")
    ELSE s

\* lines 169-172: the default extension
SetExtension(s) ==
    IF s.write_parquet THEN SetAttr(s, "extension", "parquet")
    ELSE IF s.write_csv THEN SetAttr(s, "extension", "csv")
    ELSE s

\* lines 156-172: timestamp, output directories and the default extension
Init_Outputs(a, cfg, env, fr) ==
    IF fr.exc # "" THEN fr
    ELSE IF fr.self.write_csv \/ fr.self.write_parquet
         THEN LET s1 == SetAttr(fr.self, "timestamp", env.now)
                  made == {create_dir_name(s1.out_run_id, s1.out_prefix, ftype) :
                              ftype \in OutputFtypes(a, cfg)}
                  out == IF s1.write_parquet /\ s1.write_csv
                         THEN Append(fr.stdout,
                                "Confused between reading .csv or parquet. Assuming input file is .parquet")
                         ELSE fr.stdout
              IN  [fr EXCEPT !.self = SetExtension(s1), !.stdout = out, !.dirs = made]
         ELSE fr

\* lines 27-172
ModelInfo__init__(a, cfg, env) ==
    Init_Outputs(a, cfg, env,
        Init_RunIdentity(a, env,
            Init_Outcomes(
                Init_Integration(a, cfg,
                    Init_SeirConfig(a, cfg,
                        Init_GlobalVariables(a))))))

-----------------------------------------------------------------------------
(* file_paths and utils: the collaborators the helpers delegate to *)

RECURSIVE Zeros(_)
Zeros(n) == IF n <= 0 THEN "" ELSE "0" \o Zeros(n - 1)

\* "%09d" % index
Pad9(index) == Zeros(9 - Len(ToString(index))) \o ToString(index)

\* file_paths.create_file_name: {prefix}{9-digit index}.{run_id}.{ftype}.{extension}
create_file_name(run_id, prefix, index, ftype, extension) ==
    prefix \o Pad9(index) \o "." \o run_id \o "." \o ftype \o "." \o extension

RECURSIVE LastDot(_, _)
LastDot(fname, i) ==
    IF i = 0 \/ SubSeq(fname, i, i) = "." THEN i ELSE LastDot(fname, i - 1)

\* the text after the last "." of a path
Suffix(fname) ==
    LET dot == LastDot(fname, Len(fname))
    IN  IF dot = 0 THEN "" ELSE SubSeq(fname, dot + 1, Len(fname))

\* utils.write_df: the format is chosen by the file extension alone
write_df(store, fname, df) ==
    LET format == Suffix(fname)
    IN  IF format \in {"csv", "parquet"}
        THEN [store |-> (fname :> [format |-> format, table |-> df]) @@ store, exc |-> ""]
        ELSE [store |-> store, exc |-> "NotImplementedError"]

\* utils.read_df
read_df(store, fname) ==
    IF Suffix(fname) \notin {"csv", "parquet"}
    THEN [df |-> None, exc |-> "NotImplementedError"]
    ELSE IF fname \notin DOMAIN store
         THEN [df |-> None, exc |-> "FileNotFoundError"]
         ELSE [df |-> Some(store[fname].table), exc |-> ""]

-----------------------------------------------------------------------------
(* ModelInfo's helpers *)

\* a helper that lets the descriptor's extension win over the override
ResolveExtension_defaultFirst(s, extension_override) ==
    IF "extension" \in DOMAIN s
    THEN Some(s.extension)
    ELSE IF extension_override # "" THEN Some(extension_override) ELSE None

\* lines 193-196: the override when given, else the descriptor's extension
ResolveExtension(s, extension_override) ==
    IF extension_override # ""
    THEN Some(extension_override)
    ELSE IF "extension" \in DOMAIN s THEN Some(s.extension) ELSE None

\* the defaults of read_simID (line 214) and write_simID (lines 229-230)
read_simID_input == TRUE

write_simID_input == FALSE

extension_override_default == ""

\* a helper that takes the run id of the other side
RunIdOf_swapped(s, input) == IF input THEN s.out_run_id ELSE s.in_run_id

\* lines 198-203
RunIdOf(s, input) == IF input THEN s.in_run_id ELSE s.out_run_id

PrefixOf(s, input) == IF input THEN s.in_prefix ELSE s.out_prefix

\* a helper that forgets the - 1
GlobalIndex_noOffset(s, sim_id) == sim_id + s.first_sim_index

\* a helper that numbers its files by a counter of the calls made
GlobalIndex_counter(s, sim_id) == sim_id + s.first_sim_index - 1 + ncalls

\* line 208
GlobalIndex(s, sim_id) == sim_id + s.first_sim_index - 1

\* lines 190-212
get_filename(s, ftype, sim_id, input, extension_override) ==
    LET extension == ResolveExtension(s, extension_override)
    IN  IF extension = None
        THEN [fn |-> None, exc |-> "AttributeError"]
        ELSE [fn |-> Some(create_file_name(RunIdOf(s, input), PrefixOf(s, input),
                                           GlobalIndex(s, sim_id), ftype, Val(extension))),
              exc |-> ""]

\* lines 174-180
get_input_filename(s, ftype, sim_id, extension_override) ==
    get_filename(s, ftype, sim_id, TRUE, extension_override)

\* lines 182-188
get_output_filename(s, ftype, sim_id, extension_override) ==
    get_filename(s, ftype, sim_id, FALSE, extension_override)

-----------------------------------------------------------------------------
(* Inputs *)

Dates == 1..MaxDate

SimIds == 1..MaxSimId

FTypes == {"hnpi"}

ExtensionOverrides == {"", "csv"}

DataFrames == {<<10, 20>>, <<30>>}

Methods == {"best.current", "rk4", "rk4.jit", "legacy", "euler"}

Formulas == {[op |-> "/", l |-> 1, r |-> 4], [op |-> "/", l |-> 2, r |-> 8]}

IntegrationBlocks ==
    {[method |-> m, dt |-> e] : m \in {"rk4", "euler"}, e \in Formulas}
        \cup {[method |-> m] : m \in Methods}
        \cup {[dt |-> e] : e \in Formulas}
        \cup {EmptyDict}

SeirConfigs ==
    {EmptyDict, [transitions |-> "SI"]}
        \cup {[integration |-> b, transitions |-> "SI"] : b \in IntegrationBlocks}

\* what the process-wide configuration holds under "seir"
GlobalSeir ==
    {None, Some([transitions |-> "SI"]),
     Some([integration |-> [method |-> "legacy", dt |-> [op |-> "lit", l |-> 3, r |-> 1]],
           transitions |-> "SI"])}

Configs ==
    [seir : GlobalSeir,
     compartments : {None, Some([infection_stage |-> "SEIR"])},
     outcomes_modifiers : {None, Some([scenarios |-> "med"])}]

\* what the environment supplies: the two run_id() results and the clock
Envs ==
    {[run_id_1 |-> "gen1", run_id_2 |-> r2, now |-> "20240101-000000"] : r2 \in {"gen1", "gen2"}}

\* the constructor's defaults (lines 35-52) with the required arguments filled in
BaseArgs ==
    [setup_name |-> "usa", subpop_setup |-> [nsubpops |-> 2, subpop_pop |-> <<100, 200>>,
                                             mobility |-> <<<<0, 1>>, <<1, 0>>>>,
                                             subpop_names |-> <<"a", "b">>],
     nslots |-> 1, ti |-> 1, tf |-> 2,
     npi_scenario |-> None, npi_config_seir |-> EmptyDict, seeding_config |-> EmptyDict,
     initial_conditions_config |-> EmptyDict, parameters_config |-> EmptyDict,
     seir_config |-> None, outcomes_config |-> EmptyDict, outcome_scenario |-> None,
     interactive |-> TRUE, write_csv |-> FALSE, write_parquet |-> FALSE, dt |-> None,
     first_sim_index |-> 1, in_run_id |-> None, in_prefix |-> None, out_run_id |-> None,
     out_prefix |-> None, stoch_traj_flag |-> FALSE]

\* constructor calls that vary the time span, the integration inputs, the
\* outcomes configuration and the output format
CtorArgs ==
    {[BaseArgs EXCEPT !.ti = ti, !.tf = tf, !.dt = dt, !.seir_config = sc,
                      !.parameters_config = pcfg, !.outcomes_config = ocfg,
                      !.write_csv = wc, !.write_parquet = wp] :
        ti \in Dates, tf \in Dates, dt \in {None, Some(<<1, 2>>)},
        sc \in {None} \cup {Some(c) : c \in SeirConfigs},
        pcfg \in {EmptyDict, [alpha |-> "1/4"]},
        ocfg \in {EmptyDict, [method |-> "delayframe"]},
        wc \in BOOLEAN, wp \in BOOLEAN}

\* run identities: the same on both sides, two run ids, or all generated
Identities ==
    {[in_run_id |-> Some("105"), out_run_id |-> Some("105"),
      in_prefix |-> Some(""), out_prefix |-> Some(""), first_sim_index |-> 1],
     [in_run_id |-> Some("105"), out_run_id |-> Some("106"),
      in_prefix |-> Some(""), out_prefix |-> Some(""), first_sim_index |-> 1],
     [in_run_id |-> None, out_run_id |-> None, in_prefix |-> None, out_prefix |-> None,
      first_sim_index |-> 100]}

\* constructor calls that vary the run identity (with it the first simulation
\* index) and the output format
RunArgs ==
    {[BaseArgs EXCEPT !.in_run_id = id.in_run_id, !.out_run_id = id.out_run_id,
                      !.in_prefix = id.in_prefix, !.out_prefix = id.out_prefix,
                      !.first_sim_index = id.first_sim_index,
                      !.write_csv = wc, !.write_parquet = wp,
                      !.parameters_config = [alpha |-> "1/4"],
                      !.npi_scenario = Some("inference")] :
        id \in Identities, wc \in BOOLEAN, wp \in BOOLEAN}

-----------------------------------------------------------------------------
(* The state machine *)

Fresh ==
    /\ pc = "new"
    /\ self = EmptyDict
    /\ call = None
    /\ exc = ""
    /\ stdout = <<>>
    /\ log = <<>>
    /\ dirs = {}
    /\ files = EmptyDict
    /\ last = None
    /\ lastWrite = None
    /\ ncalls = 0

\* a process whose configuration file may hold any of the sections
Init ==
    /\ config \in Configs
    /\ Fresh

\* a process whose configuration file holds a SEIR model
InitRun ==
    /\ config = [seir |-> Some([integration |->
                                  [method |-> "legacy", dt |-> [op |-> "/", l |-> 1, r |-> 2]],
                                transitions |-> "SI"]),
                 compartments |-> Some([infection_stage |-> "SEIR"]),
                 outcomes_modifiers |-> None]
    /\ Fresh

\* s = ModelInfo(**a)
Construct(a, env) ==
    /\ pc = "new"
    /\ LET fr == ModelInfo__init__(a, config, env)
       IN  /\ pc' = IF fr.exc = "" THEN "constructed" ELSE "raised"
           /\ self' = fr.self
           /\ exc' = fr.exc
           /\ stdout' = stdout \o fr.stdout
           /\ log' = log \o fr.log
           /\ dirs' = dirs \cup fr.dirs
    /\ call' = Some(a)
    /\ UNCHANGED <<config, files, last, lastWrite, ncalls>>

\* one constructor call, its arguments drawn from Args
ConstructFrom(Args) ==
    /\ pc = "new"
    /\ \E a \in Args, env \in Envs : Construct(a, env)

CallRecord(op, ftype, sim_id, input, extension_override, fn, df, e) ==
    [op |-> op, ftype |-> ftype, sim_id |-> sim_id, input |-> input,
     extension_override |-> extension_override, fname |-> fn, df |-> df, exc |-> e]

CanCall ==
    /\ pc = "constructed"
    /\ ncalls < MaxCalls

\* s.get_input_filename(ftype, sim_id, extension_override)
GetInputFilename ==
    /\ CanCall
    /\ \E ftype \in FTypes, sim_id \in SimIds, extension_override \in ExtensionOverrides :
        /\ LET r == get_input_filename(self, ftype, sim_id, extension_override)
           IN  /\ last' = Some(CallRecord("get_input_filename", ftype, sim_id, TRUE,
                                          extension_override, r.fn, None, r.exc))
        /\ ncalls' = ncalls + 1
        /\ UNCHANGED <<config, pc, self, call, exc, stdout, log, dirs, files, lastWrite>>

\* s.get_output_filename(ftype, sim_id, extension_override)
GetOutputFilename ==
    /\ CanCall
    /\ \E ftype \in FTypes, sim_id \in SimIds, extension_override \in ExtensionOverrides :
        /\ LET r == get_output_filename(self, ftype, sim_id, extension_override)
           IN  /\ last' = Some(CallRecord("get_output_filename", ftype, sim_id, FALSE,
                                          extension_override, r.fn, None, r.exc))
        /\ ncalls' = ncalls + 1
        /\ UNCHANGED <<config, pc, self, call, exc, stdout, log, dirs, files, lastWrite>>

\* s.get_filename(ftype, sim_id, input, extension_override)
GetFilename ==
    /\ CanCall
    /\ \E ftype \in FTypes, sim_id \in SimIds, input \in BOOLEAN,
          extension_override \in ExtensionOverrides :
        /\ LET r == get_filename(self, ftype, sim_id, input, extension_override)
           IN  /\ last' = Some(CallRecord("get_filename", ftype, sim_id, input,
                                          extension_override, r.fn, None, r.exc))
        /\ ncalls' = ncalls + 1
        /\ UNCHANGED <<config, pc, self, call, exc, stdout, log, dirs, files, lastWrite>>

\* s.read_simID(ftype, sim_id, input, extension_override), lines 214-222
ReadSimID ==
    /\ CanCall
    /\ \E ftype \in FTypes, sim_id \in SimIds, input \in BOOLEAN,
          extension_override \in ExtensionOverrides :
        /\ LET r == get_filename(self, ftype, sim_id, input, extension_override)
               d == IF r.exc = "" THEN read_df(files, Val(r.fn))
                    ELSE [df |-> None, exc |-> r.exc]
           IN  /\ last' = Some(CallRecord("read_simID", ftype, sim_id, input,
                                          extension_override, r.fn, d.df, d.exc))
        /\ ncalls' = ncalls + 1
        /\ UNCHANGED <<config, pc, self, call, exc, stdout, log, dirs, files, lastWrite>>

\* s.write_simID(ftype, sim_id, df, input, extension_override), lines 224-242
WriteSimID ==
    /\ CanCall
    /\ \E ftype \in FTypes, sim_id \in SimIds, df \in DataFrames, input \in BOOLEAN,
          extension_override \in ExtensionOverrides :
        /\ LET r == get_filename(self, ftype, sim_id, input, extension_override)
               w == IF r.exc = "" THEN write_df(files, Val(r.fn), df)
                    ELSE [store |-> files, exc |-> r.exc]
               rec == CallRecord("write_simID", ftype, sim_id, input, extension_override,
                                 r.fn, Some(df), w.exc)
           IN  /\ files' = w.store
               /\ last' = Some(rec)
               /\ lastWrite' = IF w.exc = "" THEN Some(rec) ELSE lastWrite
        /\ ncalls' = ncalls + 1
        /\ UNCHANGED <<config, pc, self, call, exc, stdout, log, dirs>>

\* construction alone, over every configuration and constructor call
NextConstruct == ConstructFrom(CtorArgs)

SpecConstruct == Init /\ [][NextConstruct]_vars

\* a descriptor's life: constructed once, then used
Next ==
    \/ ConstructFrom(RunArgs)
    \/ GetInputFilename
    \/ GetOutputFilename
    \/ GetFilename
    \/ ReadSimID
    \/ WriteSimID

Spec == InitRun /\ [][Next]_vars

-----------------------------------------------------------------------------
(* What the properties speak of *)

Called == call # None

Args == Val(call)

Call == Val(last)

Written == Val(lastWrite)

TimeSpanOk == Called /\ Args.tf > Args.ti

\* a SEIR section is at hand: passed in, or in the process-wide configuration
SeirPresent == Called /\ (Args.seir_config # None \/ Exists(config.seir))

\* a SEIR or a parameters configuration was passed in
Supplied == Called /\ (TruthyOpt(Args.seir_config) \/ Truthy(Args.parameters_config))

\* the SEIR section the constructor works with
SeirInUse == IF Args.seir_config # None THEN Val(Args.seir_config) ELSE Val(config.seir)

\* the constructor reaches the integration step
IntegrationRuns == TimeSpanOk /\ Exists(config.seir) /\ Supplied

HasMethod ==
    /\ "integration" \in DOMAIN SeirInUse
    /\ "method" \in DOMAIN SeirInUse.integration

HasDt ==
    /\ "integration" \in DOMAIN SeirInUse
    /\ "dt" \in DOMAIN SeirInUse.integration

UnknownMethod ==
    /\ HasMethod
    /\ SeirInUse.integration.method \notin {"best.current", "rk4", "rk4.jit", "legacy"}

\* the integration step runs to its end
IntegrationResolved == IntegrationRuns /\ ~UnknownMethod

\* self.dt is the float n / d
DtIs(n, d) ==
    /\ self.dt # None
    /\ Val(self.dt)[1] * d = n * Val(self.dt)[2]

Has(attr) == attr \in DOMAIN self

Warning == "Confused between reading .csv or parquet. Assuming input file is .parquet"

\* the side a helper call names its file after
UsesInput(c) ==
    CASE c.op = "get_input_filename" -> TRUE
      [] c.op = "get_output_filename" -> FALSE
      [] OTHER -> c.input

\* the path of a call, put together from the descriptor's fields
PathFor(input, c) ==
    (IF input THEN self.in_prefix ELSE self.out_prefix)
        \o Pad9(c.sim_id + self.first_sim_index - 1)
        \o "." \o (IF input THEN self.in_run_id ELSE self.out_run_id)
        \o "." \o c.ftype
        \o "." \o (IF c.extension_override # "" THEN c.extension_override ELSE self.extension)

SameArgs(c, d) ==
    /\ c.ftype = d.ftype
    /\ c.sim_id = d.sim_id
    /\ UsesInput(c) = UsesInput(d)
    /\ c.extension_override = d.extension_override

\* the last call is a read_simID with its defaults that follows a write_simID
\* with its defaults for the same artifact
RoundTrip ==
    /\ last # None
    /\ lastWrite # None
    /\ Call.op = "read_simID"
    /\ Call.input = read_simID_input
    /\ Call.extension_override = extension_override_default
    /\ Written.input = write_simID_input
    /\ Written.extension_override = extension_override_default
    /\ Written.ftype = Call.ftype
    /\ Written.sim_id = Call.sim_id

SameIdentity ==
    /\ self.in_run_id = self.out_run_id
    /\ self.in_prefix = self.out_prefix

-----------------------------------------------------------------------------
(* The properties *)

\* C1 as stated: tf > ti gives n_days = (tf - ti).days + 1; tf <= ti makes the
\* constructor fail with a ConfigurationError.
C1_Original ==
    Called =>
        /\ (Args.tf > Args.ti /\ pc = "constructed" => self.n_days = (Args.tf - Args.ti) + 1)
        /\ (Args.tf <= Args.ti => pc = "raised" /\ exc = "ConfigurationError")

\* C1: tf > ti gives n_days = (tf - ti).days + 1; tf <= ti (tf = ti included)
\* makes the constructor raise, and what it raises is a ValueError.
C1_TimeSpan ==
    Called =>
        /\ (Args.tf > Args.ti /\ pc = "constructed" => self.n_days = (Args.tf - Args.ti) + 1)
        /\ (Args.tf <= Args.ti => pc = "raised" /\ exc = "ValueError")

C1_Witness == Called /\ Args.tf = Args.ti /\ pc = "raised"

\* C3: with a SEIR section at hand and a SEIR or parameters configuration
\* passed in, an unknown method makes the constructor fail, "legacy" resolves
\* to "legacy", and every other case (an alias, no integration block, a block
\* without a method) resolves to "rk4.jit".
C3_Claim ==
    (TimeSpanOk /\ SeirPresent /\ Supplied) =>
        IF UnknownMethod
        THEN pc = "raised"
        ELSE /\ Has("integration_method")
             /\ self.integration_method =
                    (IF HasMethod /\ SeirInUse.integration.method = "legacy"
                     THEN "legacy" ELSE "rk4.jit")

\* C4: when the integration step resolves the step size, the dt argument wins;
\* without it the configured formula's value is taken; without both it is 2.0.
C4_StepSize ==
    IntegrationResolved =>
        IF Args.dt # None THEN DtIs(Val(Args.dt)[1], Val(Args.dt)[2])
        ELSE IF HasDt
             THEN DtIs(SeirInUse.integration.dt.l, SeirInUse.integration.dt.r)
             ELSE self.dt = Some(<<2, 1>>)

C4_Witness ==
    /\ IntegrationResolved
    /\ pc = "constructed"
    /\ Args.dt = None
    /\ HasDt
    /\ SeirInUse.integration.dt = [op |-> "/", l |-> 2, r |-> 8]
    /\ self.dt = Some(<<1, 4>>)

\* C6: both formats requested: the constructor ends with extension "parquet"
\* and prints a warning, and when it fails it fails for another reason; one
\* format requested: that format is the extension.
C6_Extension ==
    Called =>
        /\ (pc = "constructed" /\ Args.write_parquet =>
                Has("extension") /\ self.extension = "parquet")
        /\ (pc = "constructed" /\ Args.write_csv /\ ~Args.write_parquet =>
                Has("extension") /\ self.extension = "csv")
        /\ (pc = "constructed" /\ Args.write_csv /\ Args.write_parquet =>
                \E i \in DOMAIN stdout : stdout[i] = Warning)
        /\ (pc = "raised" /\ Args.write_csv /\ Args.write_parquet =>
                \/ ~TimeSpanOk
                \/ (IntegrationRuns /\ UnknownMethod)
                \/ Truthy(Args.outcomes_config))

C6_Witness ==
    /\ pc = "constructed"
    /\ Args.write_csv /\ Args.write_parquet
    /\ self.extension = "parquet"
    /\ stdout # <<>>

\* C7: a non-empty outcomes configuration never makes the constructor fail:
\* npi_config_outcomes is the "outcomes_modifiers" section when the
\* process-wide configuration has one, and None when it has none.
C7_Claim ==
    (TimeSpanOk /\ ~(IntegrationRuns /\ UnknownMethod) /\ Truthy(Args.outcomes_config)) =>
        /\ pc = "constructed"
        /\ self.npi_config_outcomes = config.outcomes_modifiers

C2_Original ==
    RoundTrip =>
        /\ Call.fname = Written.fname
        /\ Call.exc = ""
        /\ Call.df = Written.df

\* C2: on a descriptor with a default extension, write_simID with its defaults
\* writes the file named after the output identity and read_simID with its
\* defaults reads the file named after the input identity; when the two
\* identities are the same the read returns the dataframe just written.
C2_RoundTrip ==
    RoundTrip =>
        /\ Written.fname = Some(PathFor(FALSE, Written))
        /\ Call.fname = Some(PathFor(TRUE, Call))
        /\ SameIdentity =>
                /\ Call.fname = Written.fname
                /\ Call.exc = ""
                /\ Call.df = Written.df

C2_Witness ==
    /\ RoundTrip
    /\ SameIdentity
    /\ Call.exc = ""
    /\ Call.df = Written.df

\* C5: a helper's path is made of the prefix and run id of the side asked for
\* (the input side for get_input_filename, the output side for
\* get_output_filename), the index sim_id + first_sim_index - 1, the artifact
\* type and the resolved extension; the identities are the ones passed in.
C5_Filename ==
    /\ (pc = "constructed" /\ Args.in_run_id # None => self.in_run_id = Val(Args.in_run_id))
    /\ (pc = "constructed" /\ Args.out_run_id # None => self.out_run_id = Val(Args.out_run_id))
    /\ (last # None /\ Call.fname # None =>
            Val(Call.fname) = PathFor(UsesInput(Call), Call))

C5_Witness ==
    /\ last # None
    /\ Call.op = "write_simID"
    /\ Call.input = write_simID_input
    /\ Call.sim_id = 2
    /\ self.in_run_id = "105"
    /\ self.out_run_id = "106"
    /\ Call.fname = Some("000000002.106.hnpi.parquet")

C10_Override ==
    /\ (pc = "constructed" => (Has("extension") <=> (self.write_csv \/ self.write_parquet)))
    /\ (last # None =>
            /\ (Call.extension_override = "" /\ ~Has("extension") =>
                    Call.fname = None /\ Call.exc = "AttributeError")
            /\ (Call.extension_override = "" /\ Has("extension") =>
                    Call.fname # None /\ Suffix(Val(Call.fname)) = self.extension)
            /\ (Call.extension_override # "" =>
                    Call.fname # None /\ Suffix(Val(Call.fname)) = Call.extension_override))

C10_Witness ==
    /\ last # None
    /\ ~Has("extension")
    /\ Call.extension_override = ""
    /\ Call.exc = "AttributeError"

====
